---------------------------- MODULE Spec2Model ----------------------------
(***************************************************************************)
(* Hill cipher (src/hill_cipher.py, generalized N x N) and the fixed 2 x 2 *)
(* variant with the Caesar cipher (src/ciphers.py).                        *)
(*                                                                         *)
(* A character is its Unicode code point, a string a sequence of code      *)
(* points.  Python lists are sequences; a Python index k is position k+1.  *)
(* The functions of hill_cipher.py read the module globals ALPHABET and    *)
(* ALPHABET_LEN; here they take the alphabet as their first parameter, so  *)
(* that the same engine can also be run over the 27-letter alphabet of     *)
(* ciphers.py.  The program itself always passes ALPHABET.                 *)
(***************************************************************************)
EXTENDS Integers, Sequences, FiniteSets, TLC

(***************************************************************************)
(* hill_cipher.py: alphabet                                                *)
(***************************************************************************)
\* 'A'..'Z', 'a'..'z', '0'..'9', then the literal list of lines 36-41.
ALPHABET ==
    [k \in 1..26 |-> 64 + k] \o [k \in 1..26 |-> 96 + k] \o [k \in 1..10 |-> 47 + k]
    \o << 241, 209, 193, 201, 205, 211, 218, 225, 233, 237, 243, 250,
          32, 44, 46, 191, 63, 161, 33, 36, 42, 43, 45, 47, 58,
          40, 41, 91, 93, 123, 125, 59,
          39, 34, 10 >>

ALPHABET_LEN == Len(ALPHABET)

ENCODE == TRUE

DECODE == FALSE

\* ' ', the character hillCipher pads with (line 229).
Blank == 32

(***************************************************************************)
(* Python arithmetic on integers of either sign                            *)
(***************************************************************************)
\* a % b of Python: the result has the sign of b.  b = 0 never reaches it.
PyMod(a, b) == IF b > 0 THEN a % b ELSE -((-a) % (-b))

\* a // b of Python: floor division.
PyFloorDiv(a, b) == (a - PyMod(a, b)) \div b

\* abs(a)
abs(a) == IF a >= 0 THEN a ELSE -a

\* int(math.sqrt(n)) for the small n >= 0 of a key length (exact in doubles).
IntSqrt(n) == CHOOSE r \in 0..n : r * r <= n /\ (r + 1) * (r + 1) > n

\* s with the element at position k (1-based) removed: s[:k-1] + s[k:].
RemoveAt(s, k) == SubSeq(s, 1, k - 1) \o SubSeq(s, k + 1, Len(s))

(***************************************************************************)
(* hill_cipher.py: alphabet codec                                          *)
(***************************************************************************)
\* letterToNum: the index of the letter, or sys.exit (exit = TRUE).
\* ALPHABET.index(letter) is the first position that holds the letter.
letterToNum(alphabet, letter) ==
    LET found == {k \in 1..Len(alphabet) : alphabet[k] = letter}
    IN  IF found # {}
          THEN [exit |-> FALSE,
                num  |-> (CHOOSE k \in found : \A j \in found : k <= j) - 1]
          ELSE [exit |-> TRUE, num |-> 0]

numToLetter(alphabet, num) == alphabet[num + 1]

(***************************************************************************)
(* hill_cipher.py: number theory                                           *)
(***************************************************************************)
RECURSIVE gcd(_, _)
gcd(a, b) == IF a = 0 THEN b ELSE gcd(PyMod(b, a), a)

\* Returns <<g, x, y>>.
RECURSIVE gcdExtended(_, _)
gcdExtended(a, b) ==
    IF a = 0 THEN << b, 0, 1 >>
    ELSE LET r  == gcdExtended(PyMod(b, a), a)
             x1 == r[2]
             y1 == r[3]
         IN  << r[1], y1 - PyFloorDiv(b, a) * x1, x1 >>

mod(num, divisor) ==
    IF num >= 0 THEN num % divisor
    ELSE (divisor - ((-num) % divisor)) % divisor

(***************************************************************************)
(* hill_cipher.py: determinant by Laplace expansion along the first row.   *)
(* det([]) raises IndexError at firstRow = mat[0] (raised = TRUE).  A      *)
(* minor of a matrix of two or more rows has at least one row, so the      *)
(* recursive calls of the loop never raise.                                *)
(***************************************************************************)
RECURSIVE det(_)
det(mat) ==
    IF Len(mat) = 1 THEN [raised |-> FALSE, value |-> mat[1][1]]
    ELSE IF Len(mat) = 0 THEN [raised |-> TRUE, value |-> 0]
    ELSE LET firstRow  == mat[1]
             lowerRows == Tail(mat)
             minor(column) ==
                 [r \in 1..Len(lowerRows) |-> RemoveAt(lowerRows[r], column)]
             sign(column) == IF (column - 1) % 2 = 0 THEN 1 ELSE -1
             term(column) ==
                 sign(column) * firstRow[column] * det(minor(column)).value
             partial[column \in 0..Len(firstRow)] ==
                 IF column = 0 THEN 0 ELSE partial[column - 1] + term(column)
         IN  [raised |-> FALSE, value |-> partial[Len(firstRow)]]


(***************************************************************************)
(* hill_cipher.py: class CipherMat.  An object is the record of its        *)
(* attributes.  CipherMat() creates an object whose attributes resolve to  *)
(* the class defaults (mat = None, rows = 0, columns = 0); stringToMat     *)
(* assigns all three on the instance, so nothing is stored on the class.   *)
(* None is written << >>.                                                  *)
(***************************************************************************)
CipherMat == [mat |-> << >>, rows |-> 0, columns |-> 0]

\* The errors a call can end with: the message printed before sys.exit(0),
\* or the Python exception an unguarded operation raises.
SquareLengthError == "Please use a key of square length"

UnsupportedError == "isn't supported by the alphabet"

DetZeroError == "determinant is 0"

NotCoprimeError == "determinant isn't coprime with the alphabet length"

IndexError == "IndexError"

ZeroDivisionError == "ZeroDivisionError"

NoError == ""

\* letterToNum applied to string[from..to] (1-based, in order): the indices,
\* or the position of the first letter that makes letterToNum exit.
firstBad(alphabet, string, from, to) ==
    IF \E k \in from..to : letterToNum(alphabet, string[k]).exit
      THEN CHOOSE k \in from..to :
             /\ letterToNum(alphabet, string[k]).exit
             /\ \A j \in from..(k - 1) : ~letterToNum(alphabet, string[j]).exit
      ELSE 0

\* stringToMat: [error, self].  On sys.exit the object is unreachable; self
\* then holds rows and columns as assigned and the rows filled so far are
\* not kept.
stringToMat(alphabet, self, string) ==
    LET rows == IntSqrt(Len(string))
        bad  == firstBad(alphabet, string, 1, Len(string))
    IN  IF rows * rows # Len(string)
          THEN [error |-> SquareLengthError,
                self  |-> [self EXCEPT !.rows = rows, !.columns = rows]]
        ELSE IF bad # 0
          THEN [error |-> UnsupportedError,
                self  |-> [mat |-> << >>, rows |-> rows, columns |-> rows]]
        ELSE [error |-> NoError,
              self  |-> [mat |-> [row \in 1..rows |->
                                    [col \in 1..rows |->
                                       letterToNum(alphabet,
                                           string[(row - 1) * rows + col]).num]],
                         rows |-> rows, columns |-> rows]]

size(self) == self.rows

\* The cofactor matrix of lines 166-174; minor(row, col) deletes the row
\* and the column.
minorOf(mat, row, col) ==
    LET matWithoutCurrentRow == RemoveAt(mat, row)
    IN  [r \in 1..Len(matWithoutCurrentRow) |->
            RemoveAt(matWithoutCurrentRow[r], col)]

\* adjoint without the swap loop: the cofactor matrix left untransposed.
adjoint_untransposed(cofactors) == cofactors

\* The swap loop of lines 177-181 exchanges [row][col] and [col][row] once
\* for every col < row: the transpose.
adjoint(cofactors) ==
    [row \in 1..Len(cofactors) |->
        [col \in 1..Len(cofactors) |-> cofactors[col][row]]]

\* inverse: [error, self].  alphabetLen is ALPHABET_LEN.
inverse(alphabetLen, self) ==
    LET d == det(self.mat)
        determinant == d.value
        cofactor(row, col) ==
            LET m == det(minorOf(self.mat, row, col))
                sign == IF (row + col) % 2 = 0 THEN 1 ELSE -1
            IN  [raised |-> m.raised, value |-> sign * m.value]
        cofactors ==
            [row \in 1..self.rows |->
                [col \in 1..self.columns |-> cofactor(row, col).value]]
        x == gcdExtended(mod(determinant, alphabetLen), alphabetLen)[2]
        determinantModInverse == mod(x, alphabetLen)
        inverseMat ==
            [row \in 1..self.rows |->
                [col \in 1..self.columns |->
                    mod(adjoint(cofactors)[row][col] * determinantModInverse,
                        alphabetLen)]]
    IN  IF d.raised THEN [error |-> IndexError, self |-> self]
        ELSE IF determinant = 0 THEN [error |-> DetZeroError, self |-> self]
        ELSE IF abs(gcd(determinant, alphabetLen)) # 1
          THEN [error |-> NotCoprimeError, self |-> self]
        ELSE IF \E row \in 1..self.rows, col \in 1..self.columns :
                  cofactor(row, col).raised
          THEN [error |-> IndexError, self |-> self]
        ELSE [error |-> NoError, self |-> [self EXCEPT !.mat = inverseMat]]

\* cipher adding the key entry to the letter where cipher multiplies them.
cipher_adding(alphabetLen, self, block) ==
    LET sum(row) ==
            LET partial[col \in 0..self.columns] ==
                    IF col = 0 THEN 0
                    ELSE partial[col - 1] + (self.mat[row][col] + block[col])
            IN  partial[self.columns]
    IN  [row \in 1..self.rows |-> mod(sum(row), alphabetLen)]

\* cipher: the stored matrix times the block, modulo alphabetLen.
cipher(alphabetLen, self, block) ==
    LET sum(row) ==
            LET partial[col \in 0..self.columns] ==
                    IF col = 0 THEN 0
                    ELSE partial[col - 1] + self.mat[row][col] * block[col]
            IN  partial[self.columns]
    IN  [row \in 1..self.rows |-> mod(sum(row), alphabetLen)]

(***************************************************************************)
(* hill_cipher.py: hillCipher, in the pieces the driver below steps        *)
(* through.  i is the Python index into message (0-based).                 *)
(***************************************************************************)
\* padding without the test of line 227: a whole block of blanks is appended
\* to a message whose length is already a multiple of the block length.
padding_unconditional(message, blockLen) ==
    IF blockLen = 0 THEN [error |-> ZeroDivisionError, message |-> message]
    ELSE LET missingLen == blockLen - (Len(message) % blockLen)
         IN  [error   |-> NoError,
              message |-> message \o [k \in 1..missingLen |-> Blank]]

\* Lines 226-229: the padded message; len(message) % 0 raises.
padding(message, blockLen) ==
    IF blockLen = 0 THEN [error |-> ZeroDivisionError, message |-> message]
    ELSE IF Len(message) % blockLen # 0
      THEN LET missingLen == blockLen - (Len(message) % blockLen)
           IN  [error   |-> NoError,
                message |-> message \o [k \in 1..missingLen |-> Blank]]
    ELSE [error |-> NoError, message |-> message]

\* transformBlock reading message[j] where line 234 reads message[i]: every
\* iteration transforms the first block.
transformBlock_firstBlock(alphabet, cipherMat, message, i, transformedMessage) ==
    LET blockLen == size(cipherMat)
        bad == firstBad(alphabet, message, 1, blockLen)
        plainBlock ==
            [j \in 1..blockLen |-> letterToNum(alphabet, message[j]).num]
        cipheredBlock == cipher(Len(alphabet), cipherMat, plainBlock)
    IN  IF bad # 0
          THEN [error |-> UnsupportedError, i |-> i + bad - 1,
                transformedMessage |-> transformedMessage,
                translated |-> bad - 1]
          ELSE [error |-> NoError, i |-> i + blockLen,
                transformedMessage |->
                    transformedMessage \o
                    [j \in 1..blockLen |-> numToLetter(alphabet, cipheredBlock[j])],
                translated |-> blockLen]

\* Lines 232-239, one iteration of the while loop: blockLen letters are
\* translated, the block is multiplied and its letters are appended.
\* translated counts the letterToNum calls that returned.
transformBlock(alphabet, cipherMat, message, i, transformedMessage) ==
    LET blockLen == size(cipherMat)
        bad == firstBad(alphabet, message, i + 1, i + blockLen)
        plainBlock ==
            [j \in 1..blockLen |-> letterToNum(alphabet, message[i + j]).num]
        cipheredBlock == cipher(Len(alphabet), cipherMat, plainBlock)
    IN  IF bad # 0
          THEN [error |-> UnsupportedError, i |-> bad - 1,
                transformedMessage |-> transformedMessage,
                translated |-> bad - 1 - i]
          ELSE [error |-> NoError, i |-> i + blockLen,
                transformedMessage |->
                    transformedMessage \o
                    [j \in 1..blockLen |-> numToLetter(alphabet, cipheredBlock[j])],
                translated |-> blockLen]

\* Lines 231-241: what the loop returns from position i on ([error, text];
\* nothing is returned on an error).
RECURSIVE whileLoop(_, _, _, _, _)
whileLoop(alphabet, cipherMat, message, i, transformedMessage) ==
    IF i < Len(message)
      THEN LET b == transformBlock(alphabet, cipherMat, message, i,
                                   transformedMessage)
           IN  IF b.error # NoError
                 THEN [error |-> b.error, text |-> << >>]
                 ELSE whileLoop(alphabet, cipherMat, message, b.i,
                                b.transformedMessage)
      ELSE [error |-> NoError, text |-> transformedMessage]

\* hillCipher(message, key, encoding) as a function of its arguments.
hillCipher(alphabet, message, key, encoding) ==
    LET built == stringToMat(alphabet, CipherMat, key)
        inverted == IF encoding THEN built
                    ELSE inverse(Len(alphabet), built.self)
        padded == padding(message, size(inverted.self))
    IN  IF built.error # NoError THEN [error |-> built.error, text |-> << >>]
        ELSE IF inverted.error # NoError
          THEN [error |-> inverted.error, text |-> << >>]
        ELSE IF padded.error # NoError
          THEN [error |-> padded.error, text |-> << >>]
        ELSE whileLoop(alphabet, inverted.self, padded.message, 0, << >>)

(***************************************************************************)
(* ciphers.py: the 27-letter alphabet A..N, Ñ, O..Z and the fixed 2 x 2     *)
(* Hill cipher.                                                            *)
(***************************************************************************)
ALPHABET_OFFSET == 65

ciphers_ALPHABET_LEN == 27

\* 'Ñ'
Enye == 209

NotValidLetterError == "is not a valid letter"

DeterminantZeroError == "Can't continue determinant is zero"

\* letter < 'A' or letter > 'Z' and letter != 'Ñ': one-character strings
\* compare by code point ('N' is 78, 'Z' is 90).
ciphers_letterToNum(letter) ==
    IF letter < ALPHABET_OFFSET \/ (letter > 90 /\ letter # Enye)
      THEN [exit |-> TRUE, num |-> 0]
    ELSE IF letter <= 78 THEN [exit |-> FALSE, num |-> letter - ALPHABET_OFFSET]
    ELSE IF letter = Enye
      THEN [exit |-> FALSE, num |-> 78 - ALPHABET_OFFSET + 1]
    ELSE [exit |-> FALSE, num |-> letter - ALPHABET_OFFSET + 1]

\* numToLetter on an integer-valued num.
ciphers_numToLetter(num) ==
    IF num <= ciphers_letterToNum(78).num THEN num + ALPHABET_OFFSET
    ELSE IF num = ciphers_letterToNum(Enye).num THEN Enye
    ELSE num + ALPHABET_OFFSET - 1

(***************************************************************************)
(* A Python number of the 2 x 2 matrix.  toTheMinusOne multiplies by the   *)
(* true quotient (ALPHABET_LEN + 1) / det, a double.  When det divides 28  *)
(* the quotient and everything computed from it are integers that doubles  *)
(* hold exactly, and the number is [value |-> v, float |-> << >>].  When   *)
(* it does not, the results depend on IEEE-754 rounding, which 32-bit      *)
(* integers cannot reproduce; such a number is kept as the expression that *)
(* computes it, float |-> << e, n, d, m >> for mod(e * (n / d), m).  The   *)
(* double an expression denotes is a function of the expression alone, so  *)
(* equal expressions are equal doubles; nothing else is assumed of them.   *)
(***************************************************************************)
Exact(v) == [value |-> v, float |-> << >>]

IsExact(x) == x.float = << >>

\* n / d of Python (true division), d # 0.
PyTrueDiv(n, d) ==
    IF PyMod(n, d) = 0 THEN Exact(PyFloorDiv(n, d))
    ELSE [value |-> 0, float |-> << 1, n, d >>]

\* The class attributes of TwoByTwoCipherMat (lines 48-50).  mat is one
\* list object shared by every instance: the methods assign its cells in
\* place and never rebind self.mat.
TwoByTwoCipherMat == [mat  |-> << << Exact(0), Exact(0) >>, << Exact(0), Exact(0) >> >>,
                      rows |-> 2, columns |-> 2]

\* multiplyByScalar, on integer cells (the only cells it is called on).
multiplyByScalar(mat, scalar) ==
    [row \in 1..2 |-> [col \in 1..2 |->
        IF IsExact(scalar) THEN Exact(mat[row][col].value * scalar.value)
        ELSE [value |-> 0,
              float |-> << mat[row][col].value, scalar.float[2], scalar.float[3] >>]]]

\* The method mod(divisor).
TwoByTwoCipherMat_mod(mat, divisor) ==
    [row \in 1..2 |-> [col \in 1..2 |->
        IF IsExact(mat[row][col]) THEN Exact(mod(mat[row][col].value, divisor))
        ELSE [value |-> 0, float |-> Append(mat[row][col].float, divisor)]]]

\* The method det(), on integer cells.
TwoByTwoCipherMat_det(mat) ==
    (mat[1][1].value * mat[2][2].value) - (mat[1][2].value * mat[2][1].value)

transjacent(mat) ==
    << << mat[2][2], Exact(mat[1][2].value * (-1)) >>,
       << Exact(mat[2][1].value * (-1)), mat[1][1] >> >>

\* stringToMat assigns the four cells in order; string[i] raises IndexError
\* on a short key and letterToNum exits on a letter outside the alphabet,
\* each leaving the cells after it as they were.
failingCell(string) ==
    IF \E k \in 1..4 : k > Len(string) \/ ciphers_letterToNum(string[k]).exit
      THEN CHOOSE k \in 1..4 :
             /\ k > Len(string) \/ ciphers_letterToNum(string[k]).exit
             /\ \A j \in 1..(k - 1) :
                   j <= Len(string) /\ ~ciphers_letterToNum(string[j]).exit
      ELSE 0

\* stringToMat assigning the first row only.
TwoByTwoCipherMat_stringToMat_firstRow(mat, string) ==
    LET bad == failingCell(string)
        written(k) == (bad = 0 \/ k < bad) /\ k <= 2
    IN  [error |-> IF bad = 0 THEN NoError
                   ELSE IF bad > Len(string) THEN IndexError
                   ELSE NotValidLetterError,
         mat   |-> [row \in 1..2 |-> [col \in 1..2 |->
                      IF written((row - 1) * 2 + col)
                        THEN Exact(ciphers_letterToNum(string[(row - 1) * 2 + col]).num)
                        ELSE mat[row][col]]]]

TwoByTwoCipherMat_stringToMat(mat, string) ==
    LET bad == failingCell(string)
        written(k) == bad = 0 \/ k < bad
    IN  [error |-> IF bad = 0 THEN NoError
                   ELSE IF bad > Len(string) THEN IndexError
                   ELSE NotValidLetterError,
         mat   |-> [row \in 1..2 |-> [col \in 1..2 |->
                      IF written((row - 1) * 2 + col)
                        THEN Exact(ciphers_letterToNum(string[(row - 1) * 2 + col]).num)
                        ELSE mat[row][col]]]]

toTheMinusOne(mat) ==
    LET adj == transjacent(mat)
        d   == TwoByTwoCipherMat_det(adj)
    IN  IF d = 0 THEN [error |-> DeterminantZeroError, mat |-> adj]
        ELSE [error |-> NoError,
              mat   |-> TwoByTwoCipherMat_mod(
                            multiplyByScalar(adj,
                                PyTrueDiv(ciphers_ALPHABET_LEN + 1, d)),
                            ciphers_ALPHABET_LEN)]

\* multiplyByTwoByOne on a matrix of exact cells: << a, b >>.
multiplyByTwoByOne(mat, twoByOneMat) ==
    << mod(mat[1][1].value * twoByOneMat[1] + mat[1][2].value * twoByOneMat[2],
           ciphers_ALPHABET_LEN),
       mod(mat[2][1].value * twoByOneMat[1] + mat[2][2].value * twoByOneMat[2],
           ciphers_ALPHABET_LEN) >>

\* The loop of lines 172-179 from Python index i on: [error, text, float].
\* message[i + 1] raises IndexError on an odd length.  With a cell that is
\* not exact the letters are those the doubles give: the text is then kept
\* as float |-> << mat, message >>, the expression that computes it.
RECURSIVE ciphers_whileLoop(_, _, _, _)
ciphers_whileLoop(mat, message, i, transformedMessage) ==
    IF i < Len(message)
      THEN IF ciphers_letterToNum(message[i + 1]).exit
             THEN [error |-> NotValidLetterError, text |-> << >>, float |-> << >>]
           ELSE IF i + 2 > Len(message)
             THEN [error |-> IndexError, text |-> << >>, float |-> << >>]
           ELSE IF ciphers_letterToNum(message[i + 2]).exit
             THEN [error |-> NotValidLetterError, text |-> << >>, float |-> << >>]
           ELSE LET a == ciphers_letterToNum(message[i + 1]).num
                    b == ciphers_letterToNum(message[i + 2]).num
                    block == multiplyByTwoByOne(mat, << a, b >>)
                IN  ciphers_whileLoop(mat, message, i + 2,
                        transformedMessage \o
                        << ciphers_numToLetter(block[1]),
                           ciphers_numToLetter(block[2]) >>)
      ELSE [error |-> NoError, text |-> transformedMessage, float |-> << >>]

allExact(mat) == \A row \in 1..2, col \in 1..2 : IsExact(mat[row][col])

\* hillCipher of ciphers.py, given the cells of the shared list when it is
\* called: [error, text, float, mat], mat being the cells it leaves.
ciphers_hillCipher(mat, message, key, encoding) ==
    LET built == TwoByTwoCipherMat_stringToMat(mat, key)
        inverted == IF encoding THEN built ELSE toTheMinusOne(built.mat)
        exactMat == [row \in 1..2 |-> [col \in 1..2 |->
                        Exact(inverted.mat[row][col].value)]]
        run == ciphers_whileLoop(exactMat, message, 0, << >>)
    IN  IF built.error # NoError
          THEN [error |-> built.error, text |-> << >>, float |-> << >>,
                mat |-> built.mat]
        ELSE IF inverted.error # NoError
          THEN [error |-> inverted.error, text |-> << >>, float |-> << >>,
                mat |-> inverted.mat]
        ELSE IF allExact(inverted.mat) \/ run.error # NoError \/ message = << >>
          THEN [error |-> run.error, text |-> run.text, float |-> << >>,
                mat |-> inverted.mat]
        ELSE [error |-> NoError, text |-> << >>,
              float |-> << inverted.mat, message >>, mat |-> inverted.mat]

(***************************************************************************)
(* The inputs explored.  Keys and messages are strings over a few letters  *)
(* of each alphabet and one character outside it ('#').                    *)
(*   hill_cipher.py keys 'B', 'D', 'K' (indices 1, 3, 10): 2 x 2 keys with *)
(*   determinant 0, negative, above 97 and a nonzero multiple of 97        *)
(*   (10 * 10 - 3 * 1); 3 x 3 keys built from three rows.                  *)
(*   ciphers.py keys 'A', 'B', 'E' (0, 1, 4): determinants that divide 28, *)
(*   that do not, and that share the factor 3 with 27; keys that are too   *)
(*   short or hold '#' leave the shared cells partly assigned.             *)
(***************************************************************************)
MaxKeyLen == 4

MaxMsgLen == 3

MaxMsgLen2 == 2

Strings(letters, n) == UNION {[1..k -> letters] : k \in 0..n}

Outside ==
    CHOOSE c \in 33..(ALPHABET_OFFSET - 1) :
        \A k \in 1..ALPHABET_LEN : ALPHABET[k] # c

KeyLetters == {66, 68, 75, Outside}

Rows3 == {<< 66, 65, 65 >>, << 65, 66, 68 >>, << 68, 65, 66 >>}

\* Every key of square length over KeyLetters; keys of the other lengths,
\* which stringToMat rejects on their length alone, over two characters.
Keys == {k \in Strings(KeyLetters, MaxKeyLen) :
            IntSqrt(Len(k)) * IntSqrt(Len(k)) = Len(k)}
        \cup Strings({66, Outside}, MaxKeyLen)
        \cup {r1 \o r2 \o r3 : r1 \in Rows3, r2 \in Rows3, r3 \in Rows3}

Messages == Strings({66, Blank, Outside}, MaxMsgLen)

Keys2 == [1..(TwoByTwoCipherMat.rows * TwoByTwoCipherMat.columns) -> {65, 66, 69}]
         \cup Strings({66, 69}, 3)
         \cup {Append(k, Outside) : k \in Strings({66, 69}, 3)}

Messages2 == Strings({66, 67}, MaxMsgLen2)

(***************************************************************************)
(* The state.  One behaviour is one process running one of the two         *)
(* programs, making calls of its hillCipher one after the other; a call    *)
(* that ends in sys.exit or an exception may be followed by another (a     *)
(* caller that catches it, as a test harness does).                        *)
(*   program     "hill_cipher" or "ciphers"                                *)
(*   pc          where the current call is: "idle", "stringToMat",         *)
(*               "inverse", "pad", "while", "returned", or, when it ended  *)
(*               in sys.exit or an exception, the step it ended in         *)
(*   arg         the arguments of the current call                         *)
(*   message, cipherMat, i, transformedMessage                             *)
(*               the locals of hillCipher (hill_cipher.py)                 *)
(*   outcome     [error, text, float]: what the call returned, or the      *)
(*               error it ended with                                       *)
(*   translated  message letters letterToNum has translated in this call   *)
(*   blocks      blocks CipherMat.cipher has multiplied in this call       *)
(*   appended    characters the call has appended to its message           *)
(*   test        testCipher: whether this call is its second (decoding)    *)
(*               call, and the message it was given                        *)
(*   TwoByTwoCipherMat_mat                                                 *)
(*               the cells of the list TwoByTwoCipherMat.mat               *)
(*   inverseLeft the shared list holds cells that toTheMinusOne of an      *)
(*               earlier call of the process wrote                         *)
(***************************************************************************)
VARIABLES program, pc, arg, message, cipherMat, i, transformedMessage,
          outcome, translated, blocks, appended, test, TwoByTwoCipherMat_mat,
          inverseLeft

vars == << program, pc, arg, message, cipherMat, i, transformedMessage,
           outcome, translated, blocks, appended, test, TwoByTwoCipherMat_mat,
           inverseLeft >>

NoArg == [message |-> << >>, key |-> << >>, encoding |-> ENCODE]

NoOutcome == [error |-> NoError, text |-> << >>, float |-> << >>]

NoTest == [decoding |-> FALSE, message |-> << >>]

Init ==
    /\ program \in {"hill_cipher", "ciphers"}
    /\ pc = "idle"
    /\ arg = NoArg
    /\ message = << >>
    /\ cipherMat = CipherMat
    /\ i = 0
    /\ transformedMessage = << >>
    /\ outcome = NoOutcome
    /\ translated = 0
    /\ blocks = 0
    /\ appended = 0
    /\ test = NoTest
    /\ TwoByTwoCipherMat_mat = TwoByTwoCipherMat.mat
    /\ inverseLeft = FALSE

FailedAt == [stringToMat |-> "failed in stringToMat",
             inverse     |-> "failed in inverse",
             pad         |-> "failed in pad",
             while       |-> "failed in while",
             idle        |-> "failed in ciphers"]

Failed == pc \in {FailedAt[step] : step \in DOMAIN FailedAt}

\* A failure that hands the caller the text built so far.
Fail_partialText(error) ==
    /\ pc' = FailedAt[pc]
    /\ outcome' = [error |-> error, text |-> transformedMessage, float |-> << >>]

\* The call ends without returning, by sys.exit or an exception: the caller
\* gets no text, whatever transformedMessage holds.
Fail(error) ==
    /\ pc' = FailedAt[pc]
    /\ outcome' = [error |-> error, text |-> << >>, float |-> << >>]

\* hill_cipher.py line 217: hillCipher(m, k, e) is entered.
Enter(m, k, e) ==
    /\ arg' = [message |-> m, key |-> k, encoding |-> e]
    /\ message' = m
    /\ cipherMat' = CipherMat
    /\ i' = 0
    /\ transformedMessage' = << >>
    /\ outcome' = NoOutcome
    /\ translated' = 0
    /\ blocks' = 0
    /\ appended' = 0
    /\ pc' = "stringToMat"
    /\ UNCHANGED << program, TwoByTwoCipherMat_mat,
                    inverseLeft >>

Call ==
    /\ program = "hill_cipher"
    /\ pc = "idle"
    /\ \E m \in Messages, k \in Keys, e \in BOOLEAN : Enter(m, k, e)
    /\ test' = NoTest

\* Line 218.
StringToMat ==
    /\ pc = "stringToMat"
    /\ \E built \in {stringToMat(ALPHABET, cipherMat, arg.key)} :
           IF built.error # NoError
             THEN Fail(built.error) /\ UNCHANGED cipherMat
             ELSE /\ cipherMat' = built.self
                  /\ pc' = IF arg.encoding THEN "pad" ELSE "inverse"
                  /\ UNCHANGED outcome
    /\ UNCHANGED << program, arg, message, i, transformedMessage, translated,
                    blocks, appended, test, TwoByTwoCipherMat_mat,
                    inverseLeft >>

\* Lines 219-220.
Inverse ==
    /\ pc = "inverse"
    /\ \E inverted \in {inverse(ALPHABET_LEN, cipherMat)} :
           IF inverted.error # NoError
             THEN Fail(inverted.error) /\ UNCHANGED cipherMat
             ELSE /\ cipherMat' = inverted.self
                  /\ pc' = "pad"
                  /\ UNCHANGED outcome
    /\ UNCHANGED << program, arg, message, i, transformedMessage, translated,
                    blocks, appended, test, TwoByTwoCipherMat_mat,
                    inverseLeft >>

\* Lines 222-229.
Pad ==
    /\ pc = "pad"
    /\ \E padded \in {padding(message, size(cipherMat))} :
           IF padded.error # NoError
             THEN Fail(padded.error) /\ UNCHANGED << message, appended >>
             ELSE /\ message' = padded.message
                  /\ appended' = appended + (Len(padded.message) - Len(message))
                  /\ pc' = "while"
                  /\ UNCHANGED outcome
    /\ UNCHANGED << program, arg, cipherMat, i, transformedMessage, translated,
                    blocks, test, TwoByTwoCipherMat_mat,
                    inverseLeft >>

\* Block with the key checked in the loop, after the block is multiplied.
Block_lateKeyCheck ==
    /\ pc = "while"
    /\ i < Len(message)
    /\ \E b \in {transformBlock(ALPHABET, cipherMat, message, i, transformedMessage)} :
           /\ i' = b.i
           /\ transformedMessage' = b.transformedMessage
           /\ translated' = translated + b.translated
           /\ IF b.error # NoError
                THEN Fail(b.error) /\ UNCHANGED blocks
                ELSE IF det(cipherMat.mat).value = 0
                  THEN Fail(DetZeroError) /\ blocks' = blocks + 1
                  ELSE blocks' = blocks + 1 /\ UNCHANGED << pc, outcome >>
    /\ UNCHANGED << program, arg, message, cipherMat, appended, test,
                    TwoByTwoCipherMat_mat, inverseLeft >>

\* Lines 231-239: one iteration of the loop.
Block ==
    /\ pc = "while"
    /\ i < Len(message)
    /\ \E b \in {transformBlock(ALPHABET, cipherMat, message, i, transformedMessage)} :
           /\ i' = b.i
           /\ transformedMessage' = b.transformedMessage
           /\ translated' = translated + b.translated
           /\ IF b.error # NoError
                THEN Fail(b.error) /\ UNCHANGED blocks
                ELSE blocks' = blocks + 1 /\ UNCHANGED << pc, outcome >>
    /\ UNCHANGED << program, arg, message, cipherMat, appended, test,
                    TwoByTwoCipherMat_mat,
                    inverseLeft >>

\* Line 241.
Return ==
    /\ pc = "while"
    /\ i >= Len(message)
    /\ pc' = "returned"
    /\ outcome' = [error |-> NoError, text |-> transformedMessage, float |-> << >>]
    /\ UNCHANGED << program, arg, message, cipherMat, i, transformedMessage,
                    translated, blocks, appended, test, TwoByTwoCipherMat_mat,
                    inverseLeft >>

\* testCipher, line 249: the text the encoding call returned is decoded
\* with the same key.
TestDecode ==
    /\ program = "hill_cipher"
    /\ pc = "returned"
    /\ arg.encoding
    /\ ~test.decoding
    /\ test' = [decoding |-> TRUE, message |-> arg.message]
    /\ Enter(outcome.text, arg.key, DECODE)

\* ciphers.py lines 165-180: one call of its hillCipher.
CiphersHillCipher ==
    /\ program = "ciphers"
    /\ pc = "idle"
    /\ \E m \in Messages2, k \in Keys2, e \in BOOLEAN :
         \E r \in {ciphers_hillCipher(TwoByTwoCipherMat_mat, m, k, e)} :
             /\ arg' = [message |-> m, key |-> k, encoding |-> e]
             /\ TwoByTwoCipherMat_mat' = r.mat
             /\ outcome' = [error |-> r.error, text |-> r.text, float |-> r.float]
             /\ pc' = IF r.error = NoError THEN "returned" ELSE FailedAt[pc]
    /\ UNCHANGED << program, message, cipherMat, i, transformedMessage,
                    translated, blocks, appended, test, inverseLeft >>

\* The caller has the result (or has caught the exit); the locals are gone.
Done ==
    /\ pc = "returned" \/ Failed
    /\ inverseLeft' =
         (inverseLeft \/ (program = "ciphers" /\ pc = "returned" /\ ~arg.encoding))
    /\ pc' = "idle"
    /\ arg' = NoArg
    /\ message' = << >>
    /\ cipherMat' = CipherMat
    /\ i' = 0
    /\ transformedMessage' = << >>
    /\ outcome' = NoOutcome
    /\ translated' = 0
    /\ blocks' = 0
    /\ appended' = 0
    /\ test' = NoTest
    /\ UNCHANGED << program, TwoByTwoCipherMat_mat >>

Terminated == pc = "returned" \/ Failed

Next ==
    \/ Call
    \/ StringToMat
    \/ Inverse
    \/ Pad
    \/ Block
    \/ Return
    \/ TestDecode
    \/ CiphersHillCipher
    \/ Done

Spec == Init /\ [][Next]_vars

(***************************************************************************)
(* Mathematics the properties are stated in, defined apart from the code:  *)
(* the determinant by the Leibniz formula, coprimality by common divisors, *)
(* the matrix product by its definition.                                   *)
(***************************************************************************)
PermutationsOf(n) ==
    {p \in [1..n -> 1..n] : \A a, b \in 1..n : a # b => p[a] # p[b]}

Signature(p) ==
    LET inversions == {ab \in (DOMAIN p) \X (DOMAIN p) :
                          ab[1] < ab[2] /\ p[ab[1]] > p[ab[2]]}
    IN  IF Cardinality(inversions) % 2 = 0 THEN 1 ELSE -1

RECURSIVE SumOf(_, _)
SumOf(f(_), set) ==
    IF set = {} THEN 0
    ELSE LET x == CHOOSE y \in set : TRUE IN f(x) + SumOf(f, set \ {x})

Determinant(m) ==
    LET n == Len(m)
        product(p) ==
            LET upTo[row \in 0..n] ==
                    IF row = 0 THEN 1 ELSE upTo[row - 1] * m[row][p[row]]
            IN  Signature(p) * upTo[n]
    IN  SumOf(product, PermutationsOf(n))

Divides(g, a) == a % g = 0

Coprime(a, m) == \A g \in 2..m : ~(Divides(g, a) /\ Divides(g, m))

MatMulMod(a, b, m) ==
    LET n == Len(a)
        entry(row, col) ==
            LET upTo[k \in 0..n] ==
                    IF k = 0 THEN 0 ELSE upTo[k - 1] + a[row][k] * b[k][col]
            IN  upTo[n] % m
    IN  [row \in 1..n |-> [col \in 1..n |-> entry(row, col)]]

Identity(n) == [row \in 1..n |-> [col \in 1..n |-> IF row = col THEN 1 ELSE 0]]

\* t is s followed by fewer than n blanks.
IsPaddingOf(t, s, n) ==
    /\ Len(s) <= Len(t)
    /\ Len(t) - Len(s) < n
    /\ SubSeq(t, 1, Len(s)) = s
    /\ \A k \in (Len(s) + 1)..Len(t) : t[k] = Blank

\* The letters of the current key as an N x N matrix of alphabet indices
\* (defined in the states whose key stringToMat has accepted).
KeyMatrix == stringToMat(ALPHABET, CipherMat, arg.key).self.mat

HillCall == program = "hill_cipher" /\ pc # "idle"

\* The decoding call has a key matrix of N >= 1 rows and is past inverse.
PastInverse ==
    /\ HillCall
    /\ ~arg.encoding
    /\ cipherMat.rows >= 1
    /\ pc \in {"pad", "while", "returned",
               "failed in inverse", "failed in pad", "failed in while"}

InverseSucceeded == PastInverse /\ pc # "failed in inverse"

(***************************************************************************)
(* C1.  Round trip (testCipher): for a key of N x N letters, N >= 1, whose *)
(* matrix is invertible modulo ALPHABET_LEN and a message of alphabet      *)
(* letters, decoding the encoded message returns the message followed by   *)
(* fewer than N blanks.  Stated as the claim states it; it fails for       *)
(* N = 1, where inverse raises IndexError.                                 *)
(***************************************************************************)
C1_RoundTrip ==
    (/\ HillCall
     /\ test.decoding
     /\ Terminated
     /\ Len(arg.key) >= 1
     /\ Coprime(Determinant(KeyMatrix), ALPHABET_LEN))
    => (/\ pc = "returned"
        /\ IsPaddingOf(outcome.text, test.message, size(cipherMat)))

\* The same for N >= 2 (what the code does satisfy).
RoundTripFromTwo ==
    (/\ HillCall
     /\ test.decoding
     /\ Terminated
     /\ Len(arg.key) >= 4
     /\ Coprime(Determinant(KeyMatrix), ALPHABET_LEN))
    => (/\ pc = "returned"
        /\ IsPaddingOf(outcome.text, test.message, size(cipherMat)))

(***************************************************************************)
(* C2.  inverse fails exactly when the determinant of the key matrix is    *)
(* congruent to 0 modulo ALPHABET_LEN or is not coprime with it.  Stated   *)
(* as the claim states it, for every square matrix of N >= 1 rows; it      *)
(* fails for N = 1, where inverse fails on every matrix.                   *)
(***************************************************************************)
C2_InverseFailsExactly ==
    PastInverse =>
        ((pc = "failed in inverse")
           <=> (\/ Divides(ALPHABET_LEN, Determinant(KeyMatrix))
                \/ ~Coprime(Determinant(KeyMatrix), ALPHABET_LEN)))

\* The same for N >= 2.
InverseFailsExactlyFromTwo ==
    (PastInverse /\ cipherMat.rows >= 2) =>
        ((pc = "failed in inverse")
           <=> (\/ Divides(ALPHABET_LEN, Determinant(KeyMatrix))
                \/ ~Coprime(Determinant(KeyMatrix), ALPHABET_LEN)))

(***************************************************************************)
(* C3.  Whenever inverse succeeds on a key matrix K, the matrix it         *)
(* installs, Kinv, satisfies (K x Kinv) mod ALPHABET_LEN = identity.       *)
(***************************************************************************)
C3_InverseIsInverse ==
    InverseSucceeded =>
        MatMulMod(KeyMatrix, cipherMat.mat, ALPHABET_LEN) = Identity(cipherMat.rows)

\* inverse has succeeded on a 3 x 3 key of negative determinant.
C3_Witness ==
    /\ InverseSucceeded
    /\ cipherMat.rows = 3
    /\ Determinant(KeyMatrix) < 0

(***************************************************************************)
(* C4.  Whenever the message or the key holds a character outside the      *)
(* alphabet, the call fails with the unsupported-letter error and returns  *)
(* nothing.  Stated as the claim states it; it fails for a key of          *)
(* non-square length, which fails with the square-length error.            *)
(***************************************************************************)
HasOutside(string) ==
    \E k \in 1..Len(string) : letterToNum(ALPHABET, string[k]).exit

IsSquare(n) == IntSqrt(n) * IntSqrt(n) = n

C4_UnsupportedAlways ==
    (HillCall /\ Terminated /\ (HasOutside(arg.message) \/ HasOutside(arg.key)))
    => (/\ Failed
        /\ outcome.error = UnsupportedError
        /\ outcome.text = << >>)

\* C4 as amended: the call fails and returns nothing, not even the blocks
\* already transformed; the error is the unsupported-letter error when the
\* character is in a key of square length, and, when it is in the message
\* only, exactly when key setup and padding have succeeded.  A key of
\* non-square length fails with the square-length error.
C4_NoOutputOnUnsupported ==
    (HillCall /\ Terminated /\ (HasOutside(arg.message) \/ HasOutside(arg.key)))
    => (/\ Failed
        /\ outcome.text = << >>
        /\ IF ~IsSquare(Len(arg.key))
             THEN outcome.error = SquareLengthError
           ELSE IF HasOutside(arg.key)
             THEN outcome.error = UnsupportedError /\ pc = "failed in stringToMat"
           ELSE (outcome.error = UnsupportedError <=> pc = "failed in while"))

\* The loop has transformed a block and then met the character.
C4_Witness ==
    /\ HillCall
    /\ pc = "failed in while"
    /\ outcome.error = UnsupportedError
    /\ transformedMessage # << >>
    /\ blocks >= 1

(***************************************************************************)
(* C5.  Fail fast: a key-validity failure (non-square length, determinant  *)
(* zero, determinant not coprime with ALPHABET_LEN) ends the call during   *)
(* setup, before any message letter is translated and before any block is  *)
(* multiplied.                                                             *)
(***************************************************************************)
KeyValidityErrors == {SquareLengthError, DetZeroError, NotCoprimeError}

C5_FailFast ==
    (HillCall /\ Failed /\ outcome.error \in KeyValidityErrors)
    => (/\ pc \in {"failed in stringToMat", "failed in inverse"}
        /\ translated = 0
        /\ blocks = 0
        /\ transformedMessage = << >>)

\* A decoding call with a message to transform has failed on its key.
C5_Witness ==
    /\ HillCall
    /\ pc = "failed in inverse"
    /\ outcome.error = NotCoprimeError
    /\ Len(arg.message) >= 2

(***************************************************************************)
(* C6.  When decoding, the call appends nothing to its message.  Stated as *)
(* the claim states it; it fails for a message whose length is not a       *)
(* multiple of N, which is padded in either direction.                     *)
(***************************************************************************)
C6_NoPaddingOnDecode == (HillCall /\ ~arg.encoding) => appended = 0

PastPad == HillCall /\ pc \in {"while", "returned", "failed in while"}

\* C6 as amended: when decoding, the call appends nothing to a message
\* whose length is a multiple of N, and N - (length mod N) blanks to any
\* other, as it does when encoding.
C6_PaddingOnDecode ==
    (HillCall /\ ~arg.encoding) =>
        IF PastPad
          THEN LET n == size(cipherMat)
                   rest == Len(arg.message) % n
               IN  /\ appended = IF rest = 0 THEN 0 ELSE n - rest
                   /\ message = arg.message \o [k \in 1..appended |-> Blank]
          ELSE appended = 0 /\ message = arg.message

\* A decoding call is past the padding of a message of whole blocks.
C6_Witness ==
    /\ PastPad
    /\ ~arg.encoding
    /\ size(cipherMat) >= 2
    /\ Len(arg.message) >= 2
    /\ Len(arg.message) % size(cipherMat) = 0

(***************************************************************************)
(* C7.  Over any sequence of calls, what a call returns (or the error it   *)
(* ends with) is what the same call gives as the first call of a process:  *)
(* nothing an earlier call left behind, the cells of the shared list of    *)
(* TwoByTwoCipherMat included, influences it.                              *)
(***************************************************************************)
FirstCall ==
    IF program = "ciphers"
      THEN LET r == ciphers_hillCipher(TwoByTwoCipherMat.mat, arg.message,
                                       arg.key, arg.encoding)
           IN  [error |-> r.error, text |-> r.text, float |-> r.float]
      ELSE LET r == hillCipher(ALPHABET, arg.message, arg.key, arg.encoding)
           IN  [error |-> r.error, text |-> r.text, float |-> << >>]

C7_NoStateCarriedOver == Terminated => outcome = FirstCall

\* A call of ciphers.py has returned a text computed while the shared list
\* held, on entry, cells other than its initial ones, an inverse among the
\* matrices installed before.
C7_Witness ==
    /\ program = "ciphers"
    /\ pc = "returned"
    /\ inverseLeft
    /\ Len(arg.message) >= 2

(***************************************************************************)
(* C8.  With a key of one letter (key matrix [[k]]) every message letter   *)
(* of index x is encoded to the letter of index (x + k) mod ALPHABET_LEN.  *)
(* Stated as the claim states it; it fails: the letter is that of index    *)
(* (k * x) mod ALPHABET_LEN.                                               *)
(***************************************************************************)
Num(letter) == letterToNum(ALPHABET, letter).num

OneLetterKeyEncoded ==
    /\ HillCall
    /\ pc = "returned"
    /\ arg.encoding
    /\ Len(arg.key) = 1

C8_ScalarAddition ==
    OneLetterKeyEncoded =>
        /\ Len(outcome.text) = Len(arg.message)
        /\ \A p \in 1..Len(arg.message) :
              Num(outcome.text[p])
                = (Num(arg.message[p]) + Num(arg.key[1])) % ALPHABET_LEN

\* C8 as amended: the engine reduces to scalar modular multiplication.
C8_ScalarMultiplication ==
    OneLetterKeyEncoded =>
        /\ Len(outcome.text) = Len(arg.message)
        /\ \A p \in 1..Len(arg.message) :
              Num(outcome.text[p])
                = (Num(arg.key[1]) * Num(arg.message[p])) % ALPHABET_LEN

\* A message of two letters or more has been encoded with a key k >= 2.
C8_Witness ==
    /\ OneLetterKeyEncoded
    /\ Len(arg.message) >= 2
    /\ Num(arg.key[1]) >= 2
    /\ \E p \in 1..Len(arg.message) : Num(arg.message[p]) >= 2

(***************************************************************************)
(* C9.  For a key of four letters and a message of even length, hillCipher *)
(* of ciphers.py gives the outcome of the generalized hillCipher run over  *)
(* the same 27-letter alphabet: the same text, or a failure.  Stated as    *)
(* the claim states it.  A text that ciphers.py computes in doubles that   *)
(* are not exact is not compared, so a violation is a definite one: one    *)
(* call fails and the other returns, or two exact texts differ.            *)
(***************************************************************************)
SpanishAlphabet == [n \in 1..ciphers_ALPHABET_LEN |-> ciphers_numToLetter(n - 1)]

C9_TwoByTwoIsSubset ==
    (/\ program = "ciphers"
     /\ Terminated
     /\ Len(arg.key) = 4
     /\ Len(arg.message) % 2 = 0)
    => LET general == hillCipher(SpanishAlphabet, arg.message, arg.key,
                                 arg.encoding)
       IN  IF outcome.error # NoError THEN general.error # NoError
           ELSE /\ general.error = NoError
                /\ outcome.float = << >> => general.text = outcome.text

\* The same for the encode direction alone.
TwoByTwoEncodesAlike == arg.encoding => C9_TwoByTwoIsSubset

(***************************************************************************)
(* C10.  The loop keeps the order of the blocks and treats them            *)
(* independently: output block b is the installed matrix times input block *)
(* b modulo ALPHABET_LEN, and for every split of the message into S1, of a *)
(* length that is a multiple of N, and S2,                                 *)
(*     transform(S1 ++ S2) = transform(S1) ++ transform(S2),               *)
(* a failure of either part being the failure of the whole.                *)
(***************************************************************************)
MatVecMod(m, v, modulus) ==
    [row \in 1..Len(m) |->
        LET upTo[k \in 0..Len(v)] ==
                IF k = 0 THEN 0 ELSE upTo[k - 1] + m[row][k] * v[k]
        IN  upTo[Len(v)] % modulus]

Transform(s) == hillCipher(ALPHABET, s, arg.key, arg.encoding)

Joined(r1, r2) ==
    IF r1.error # NoError THEN [error |-> r1.error, text |-> << >>, float |-> << >>]
    ELSE IF r2.error # NoError
      THEN [error |-> r2.error, text |-> << >>, float |-> << >>]
    ELSE [error |-> NoError, text |-> r1.text \o r2.text, float |-> << >>]

C10_BlocksIndependent ==
    (HillCall /\ Terminated /\ Len(arg.key) >= 1) =>
        LET n == IntSqrt(Len(arg.key))
            len == Len(arg.message)
        IN  /\ \A k \in 0..len :
                  k % n = 0 =>
                      outcome = Joined(Transform(SubSeq(arg.message, 1, k)),
                                       Transform(SubSeq(arg.message, k + 1, len)))
            /\ pc = "returned" =>
                  \A b \in 0..((Len(message) \div n) - 1) :
                      [j \in 1..n |-> Num(outcome.text[b * n + j])]
                        = MatVecMod(cipherMat.mat,
                                    [j \in 1..n |-> Num(message[b * n + j])],
                                    ALPHABET_LEN)

\* Two different blocks of two letters have been transformed and returned.
C10_Witness ==
    /\ HillCall
    /\ pc = "returned"
    /\ size(cipherMat) = 2
    /\ blocks = 2
    /\ SubSeq(message, 1, 2) # SubSeq(message, 3, 4)
    /\ SubSeq(outcome.text, 1, 2) # SubSeq(outcome.text, 3, 4)

=============================================================================
